---- MODULE Spec2Model ----
(* A model of main.c: the 4x4 matrix keyboard scanner that plays one tone   *)
(* per detected key on a buzzer.  The program is one thread (main); the     *)
(* keys of the matrix are the environment and change at any time.           *)
EXTENDS Integers, Sequences, FiniteSets, TLC

(* ------------------------------------------------------------------ *)
(* Bounds of the environment                                          *)
(* ------------------------------------------------------------------ *)

\* keys held down at the same time
MaxPressed == 2

(* ------------------------------------------------------------------ *)
(* Program constants                                                  *)
(* ------------------------------------------------------------------ *)

LINE_PINS == <<4, 8, 9, 16>>

COLUMN_PINS == <<17, 18, 19, 20>>

\* (mutant) two neighbouring notes of the second row change places
freq_map_Swapped ==
  << <<262, 294, 330, 349>>,
     <<392, 494, 440, 523>>,
     <<587, 659, 698, 784>>,
     <<880, 988, 1047, 1175>> >>

freq_map ==
  << <<262, 294, 330, 349>>,
     <<392, 440, 494, 523>>,
     <<587, 659, 698, 784>>,
     <<880, 988, 1047, 1175>> >>

\* number of rows and of columns: the loop bounds "< 4"
N == 4

WELCOME_FREQ == 262

TONE_MS == 200

Idx == 0 .. (N - 1)

Pins == {LINE_PINS[k] : k \in 1 .. N} \cup {COLUMN_PINS[k] : k \in 1 .. N}

Cells == Idx \X Idx

\* row-major position of a cell
CellIndex(cell) == N * cell[1] + cell[2]

\* freq_map[row][col], for row, col in 0..3
frequency_of(cell) == freq_map[cell[1] + 1][cell[2] + 1]

None == <<>>

Silent == [freq |-> 0, ms |-> 0]

VARIABLES
  pc,          \* where main is
  i,           \* setup_keyboard's loop variable
  row,         \* scan_keyboard's outer loop variable
  col,         \* scan_keyboard's inner loop variable
  gpio_dir,    \* pin -> "in" | "out"
  gpio_out,    \* pin -> the level its output latch drives
  gpio_pull,   \* pin -> "none" | "down"
  buzzer,      \* the playTone call in progress, Silent when there is none
  pressed,     \* the cells whose key is physically down (environment)
  setups,      \* history: calls of setup, 2 standing for "2 or more"
  welcomes,    \* history: welcome tones started, 2 standing for "2 or more"
  anyRead,     \* history: a column pin has been read
  passTones,   \* history: key-triggered playTone calls of this pass
  passLast,    \* history: the last of them, None if there is none
  passHigh,    \* history: detection reads of this pass that returned high
  waited,      \* history: the release-wait loop was entered in this pass
  lastRead,    \* history: row-major index of the last cell sampled, -1 if none
  solo,        \* history: the one key held at the start of the pass, see Press
  pressTones   \* history: cell -> tones played for it since it went down

prog == <<pc, i, row, col, gpio_dir, gpio_out, gpio_pull, buzzer>>

hist == <<setups, welcomes, anyRead, passTones, passLast, passHigh, waited,
          lastRead, solo, pressTones>>

vars == <<prog, pressed, hist>>

ScanPcs == {"activate", "read", "key_tone", "wait", "deactivate"}

PcValues == {"setup", "setup_keyboard", "welcome", "welcome_tone", "sleep",
             "returned"} \cup ScanPcs

Cap2(n) == IF n >= 2 THEN 2 ELSE n + 1

(* ------------------------------------------------------------------ *)
(* GPIO                                                               *)
(* ------------------------------------------------------------------ *)

\* gpio_init: the pin becomes an input whose output latch is low
gpio_init(dir, out, pin) ==
  [d |-> [dir EXCEPT ![pin] = "in"], o |-> [out EXCEPT ![pin] = FALSE]]

\* the lines that drive high right now
HighLines == {r \in Idx : /\ gpio_dir[LINE_PINS[r + 1]] = "out"
                          /\ gpio_out[LINE_PINS[r + 1]]}

\* gpio_get of a column pin: high when a key that is down connects the
\* column to a line that drives high; the pull-down reads low otherwise
gpio_get(pin) ==
  \E r \in HighLines : \E c \in Idx :
     COLUMN_PINS[c + 1] = pin /\ <<r, c>> \in pressed

(* ------------------------------------------------------------------ *)
(* The buzzer library (buzzer.h, fetched from bitdog-patroLibs)       *)
(* ------------------------------------------------------------------ *)

\* (mutant) a playTone that starts the tone and returns: the tone is still
\* sounding when the caller goes on
playTone_NonBlocking == buzzer

\* the buzzer at the return of playTone(frequency, duration): playTone
\* emits the tone for the duration, then stops it, and only then returns
playTone_return == Silent

(* ------------------------------------------------------------------ *)
(* Initial state: reset, before main                                  *)
(* ------------------------------------------------------------------ *)

Init ==
  /\ pc = "setup"
  /\ i = 0
  /\ row = 0
  /\ col = 0
  /\ gpio_dir = [p \in Pins |-> "in"]
  /\ gpio_out = [p \in Pins |-> FALSE]
  /\ gpio_pull = [p \in Pins |-> "none"]
  /\ buzzer = Silent
  /\ pressed = {}
  /\ setups = 0
  /\ welcomes = 0
  /\ anyRead = FALSE
  /\ passTones = 0
  /\ passLast = None
  /\ passHigh = 0
  /\ waited = FALSE
  /\ lastRead = -1
  /\ solo = None
  /\ pressTones = [k \in Cells |-> 0]

(* ------------------------------------------------------------------ *)
(* main: setup                                                        *)
(* ------------------------------------------------------------------ *)

\* setup(): stdio_init_all, initBuzzerPWM, then the call of setup_keyboard
Setup ==
  /\ pc = "setup"
  /\ pc' = "setup_keyboard"
  /\ i' = 0
  /\ setups' = Cap2(setups)
  /\ UNCHANGED <<row, col, gpio_dir, gpio_out, gpio_pull, buzzer, pressed>>
  /\ UNCHANGED <<welcomes, anyRead, passTones, passLast, passHigh, waited,
                 lastRead, solo, pressTones>>

\* one iteration of setup_keyboard's loop, the last one returning to main:
\* gpio_init, gpio_set_dir(GPIO_OUT) and gpio_put(level) of the line pin,
\* gpio_init, gpio_set_dir(GPIO_IN) and the pull setting of the column pin
SetupKeyboardWith(level, pull) ==
  /\ pc = "setup_keyboard"
  /\ i < N
  /\ LET line == LINE_PINS[i + 1]
         column == COLUMN_PINS[i + 1]
         a == gpio_init(gpio_dir, gpio_out, line)
         b == gpio_init([a.d EXCEPT ![line] = "out"],
                        [a.o EXCEPT ![line] = level], column)
     IN /\ gpio_dir' = [b.d EXCEPT ![column] = "in"]
        /\ gpio_out' = b.o
        /\ gpio_pull' = [gpio_pull EXCEPT ![column] = pull]
  /\ i' = i + 1
  /\ pc' = IF i + 1 < N THEN "setup_keyboard" ELSE "welcome"
  /\ UNCHANGED <<row, col, buzzer, pressed, hist>>

\* (mutant) gpio_pull_up instead of gpio_pull_down
SetupKeyboard_PullUp == SetupKeyboardWith(FALSE, "up")

\* gpio_put(LINE_PINS[i], 0) and gpio_pull_down(COLUMN_PINS[i])
SetupKeyboardStep == SetupKeyboardWith(FALSE, "down")

(* ------------------------------------------------------------------ *)
(* main: the welcome tone                                             *)
(* ------------------------------------------------------------------ *)

\* the history of a pass starts afresh with each call of scan_keyboard
EnterScan ==
  /\ pc' = "activate"
  /\ row' = 0
  /\ passTones' = 0
  /\ passLast' = None
  /\ passHigh' = 0
  /\ waited' = FALSE
  /\ lastRead' = -1
  /\ solo' = IF Cardinality(pressed) = 1
             THEN CHOOSE k \in pressed : TRUE
             ELSE None

\* playTone(262, 200) is called
Welcome ==
  /\ pc = "welcome"
  /\ pc' = "welcome_tone"
  /\ buzzer' = [freq |-> WELCOME_FREQ, ms |-> TONE_MS]
  /\ welcomes' = Cap2(welcomes)
  /\ UNCHANGED <<i, row, col, gpio_dir, gpio_out, gpio_pull, pressed>>
  /\ UNCHANGED <<setups, anyRead, passTones, passLast, passHigh, waited,
                 lastRead, solo, pressTones>>

\* playTone returns; main enters the loop and calls scan_keyboard
WelcomeEnd ==
  /\ pc = "welcome_tone"
  /\ buzzer' = playTone_return
  /\ EnterScan
  /\ UNCHANGED <<i, col, gpio_dir, gpio_out, gpio_pull, pressed>>
  /\ UNCHANGED <<setups, welcomes, anyRead, pressTones>>

(* ------------------------------------------------------------------ *)
(* scan_keyboard                                                      *)
(* ------------------------------------------------------------------ *)

\* the head of the outer loop's body: gpio_put(pin, 1), then the inner
\* loop starts at col = 0
ActivateLine(pin) ==
  /\ pc = "activate"
  /\ gpio_out' = [gpio_out EXCEPT ![pin] = TRUE]
  /\ col' = 0
  /\ pc' = "read"
  /\ UNCHANGED <<i, row, gpio_dir, gpio_pull, buzzer, pressed, hist>>

\* (mutant) the row is activated through the column table
Activate_ColumnPin == ActivateLine(COLUMN_PINS[row + 1])

\* (mutant) every row activates the first line
Activate_FirstLine == ActivateLine(LINE_PINS[1])

\* gpio_put(LINE_PINS[row], 1)
Activate == ActivateLine(LINE_PINS[row + 1])

\* (mutant) the inner loop steps by two columns
NextCol_Skip ==
  /\ col' = IF col + 2 < N THEN col + 2 ELSE col
  /\ pc' = IF col + 2 < N THEN "read" ELSE "deactivate"

\* col++ of the inner loop; after the last column the row is deactivated
NextCol ==
  /\ col' = IF col + 1 < N THEN col + 1 ELSE col
  /\ pc' = IF col + 1 < N THEN "read" ELSE "deactivate"

\* the detection test of the inner loop: the column pin is read; when the
\* condition `taken` holds playTone(freq, 200) is called, otherwise the
\* inner loop goes on
ReadColWith(taken, freq) ==
  /\ pc = "read"
  /\ anyRead' = TRUE
  /\ lastRead' = CellIndex(<<row, col>>)
  /\ passHigh' = IF gpio_get(COLUMN_PINS[col + 1])
                 THEN passHigh + 1 ELSE passHigh
  /\ IF taken
     THEN /\ pc' = "key_tone"
          /\ buzzer' = [freq |-> freq, ms |-> TONE_MS]
          /\ passTones' = passTones + 1
          /\ passLast' = [cell |-> <<row, col>>, freq |-> freq,
                          ms |-> TONE_MS]
          /\ pressTones' = [pressTones EXCEPT
                              ![<<row, col>>] = Cap2(pressTones[<<row, col>>])]
          /\ UNCHANGED col
     ELSE /\ NextCol
          /\ UNCHANGED <<buzzer, passTones, passLast, pressTones>>
  /\ UNCHANGED <<i, row, gpio_dir, gpio_out, gpio_pull, pressed>>
  /\ UNCHANGED <<setups, welcomes, waited, solo>>

\* (mutant) the test is inverted, as for an active-low keypad
ReadCol_Inverted ==
  ReadColWith(~gpio_get(COLUMN_PINS[col + 1]), freq_map[row + 1][col + 1])

\* (mutant) the table is indexed [col][row]
ReadCol_Transposed ==
  ReadColWith(gpio_get(COLUMN_PINS[col + 1]), freq_map[col + 1][row + 1])

\* if (gpio_get(COLUMN_PINS[col])) playTone(freq_map[row][col], 200);
ReadCol ==
  ReadColWith(gpio_get(COLUMN_PINS[col + 1]), freq_map[row + 1][col + 1])

\* playTone returns; the release-wait loop is next
ToneEnd ==
  /\ pc = "key_tone"
  /\ buzzer' = playTone_return
  /\ pc' = "wait"
  /\ UNCHANGED <<i, row, col, gpio_dir, gpio_out, gpio_pull, pressed, hist>>

\* one test of the release-wait loop's condition: while it holds the loop
\* spins (tight_loop_contents does nothing), otherwise the loop is left
\* and the inner loop goes on; `again` says whether the same cell is
\* sampled once more instead
WaitReleaseOn(high, again) ==
  /\ pc = "wait"
  /\ anyRead' = TRUE
  /\ waited' = TRUE
  /\ IF high
     THEN UNCHANGED <<pc, col>>
     ELSE IF again THEN pc' = "read" /\ UNCHANGED col ELSE NextCol
  /\ UNCHANGED <<i, row, gpio_dir, gpio_out, gpio_pull, buzzer, pressed>>
  /\ UNCHANGED <<setups, welcomes, passTones, passLast, passHigh, lastRead,
                 solo, pressTones>>

\* (mutant) after the release the row is scanned again from column 0
WaitRelease_Restart ==
  /\ pc = "wait"
  /\ anyRead' = TRUE
  /\ waited' = TRUE
  /\ IF gpio_get(COLUMN_PINS[col + 1])
     THEN UNCHANGED <<pc, col>>
     ELSE pc' = "read" /\ col' = 0
  /\ UNCHANGED <<i, row, gpio_dir, gpio_out, gpio_pull, buzzer, pressed>>
  /\ UNCHANGED <<setups, welcomes, passTones, passLast, passHigh, lastRead,
                 solo, pressTones>>

\* (mutant) no release-wait: the loop is left at once
WaitRelease_NoBlock == WaitReleaseOn(FALSE, FALSE)

\* (mutant) the loop waits on the pin indexed by row instead of col
WaitRelease_WrongPin == WaitReleaseOn(gpio_get(COLUMN_PINS[row + 1]), FALSE)

\* (mutant) after the release the same cell is tested again (col is not
\* advanced)
WaitRelease_Resample == WaitReleaseOn(gpio_get(COLUMN_PINS[col + 1]), TRUE)

\* while (gpio_get(COLUMN_PINS[col])) tight_loop_contents();
WaitRelease == WaitReleaseOn(gpio_get(COLUMN_PINS[col + 1]), FALSE)

\* the end of the outer loop's body: gpio_put(pin, level), then row++;
\* after the last row scan_keyboard returns and main calls sleep_ms(10)
DeactivateWith(pin, level) ==
  /\ pc = "deactivate"
  /\ gpio_out' = [gpio_out EXCEPT ![pin] = level]
  /\ row' = IF row + 1 < N THEN row + 1 ELSE row
  /\ pc' = IF row + 1 < N THEN "activate" ELSE "sleep"
  /\ UNCHANGED <<i, col, gpio_dir, gpio_pull, buzzer, pressed, hist>>

\* (mutant) the line is written 1 again instead of 0
Deactivate_High == DeactivateWith(LINE_PINS[row + 1], TRUE)

\* (mutant) the line indexed by col, not by row, is driven low
Deactivate_WrongPin == DeactivateWith(LINE_PINS[col + 1], FALSE)

\* gpio_put(LINE_PINS[row], 0)
Deactivate == DeactivateWith(LINE_PINS[row + 1], FALSE)

\* (mutant) the welcome tone sits inside the loop
SleepEnd_Rewelcome ==
  /\ pc = "sleep"
  /\ pc' = "welcome"
  /\ UNCHANGED <<i, row, col, gpio_dir, gpio_out, gpio_pull, buzzer, pressed,
                 hist>>

\* (mutant) setup sits inside the loop
SleepEnd_Resetup ==
  /\ pc = "sleep"
  /\ pc' = "setup"
  /\ UNCHANGED <<i, row, col, gpio_dir, gpio_out, gpio_pull, buzzer, pressed,
                 hist>>

\* sleep_ms(10) returns; while (true) calls scan_keyboard again
SleepEnd ==
  /\ pc = "sleep"
  /\ EnterScan
  /\ UNCHANGED <<i, col, gpio_dir, gpio_out, gpio_pull, buzzer, pressed>>
  /\ UNCHANGED <<setups, welcomes, anyRead, pressTones>>

(* ------------------------------------------------------------------ *)
(* The environment: the keys                                          *)
(* ------------------------------------------------------------------ *)

InPass == pc \in ScanPcs

\* one of the keys of `keys` goes down
PressIn(keys) ==
  \E k \in keys \ pressed :
    /\ Cardinality(pressed) < MaxPressed
    /\ pressed' = pressed \cup {k}
    /\ pressTones' = [pressTones EXCEPT ![k] = 0]
    /\ solo' = IF InPass THEN None ELSE solo
    /\ UNCHANGED prog
    /\ UNCHANGED <<setups, welcomes, anyRead, passTones, passLast, passHigh,
                   waited, lastRead>>

\* a key goes down
Press == PressIn(Cells)

\* a key goes up
Release ==
  \E k \in pressed :
    /\ pressed' = pressed \ {k}
    /\ pressTones' = [pressTones EXCEPT ![k] = 0]
    /\ solo' = IF InPass /\ solo = k /\ lastRead < CellIndex(k)
               THEN None ELSE solo
    /\ UNCHANGED prog
    /\ UNCHANGED <<setups, welcomes, anyRead, passTones, passLast, passHigh,
                   waited, lastRead>>

(* ------------------------------------------------------------------ *)
(* Specification                                                      *)
(* ------------------------------------------------------------------ *)

Next ==
  \/ Setup
  \/ SetupKeyboardStep
  \/ Welcome
  \/ WelcomeEnd
  \/ Activate
  \/ ReadCol
  \/ ToneEnd
  \/ WaitRelease
  \/ Deactivate
  \/ SleepEnd
  \/ Press
  \/ Release

Spec == Init /\ [][Next]_vars

\* the steps of main: the one thread of the program
Program ==
  \/ Setup
  \/ SetupKeyboardStep
  \/ Welcome
  \/ WelcomeEnd
  \/ Activate
  \/ ReadCol
  \/ ToneEnd
  \/ WaitRelease
  \/ Deactivate
  \/ SleepEnd

\* the processor keeps executing main: a step of the program that stays
\* possible is taken, and playTone and sleep_ms return.  Nothing is assumed
\* of the keys.
FairSpec == Spec /\ WF_vars(Program)

\* The keys that are touched in the specification the progress properties
\* are checked under: the first and the last cell, two keys of one row
\* (row 0 and row 3), two keys of one column (column 2), two keys of
\* neither.
LiveKeys == {<<0, 0>>, <<0, 3>>, <<1, 2>>, <<2, 2>>, <<3, 0>>, <<3, 3>>}

LivePress == PressIn(LiveKeys)

LiveNext == Program \/ LivePress \/ Release

\* FairSpec with the key-down events restricted to LiveKeys
LiveSpec == Init /\ [][LiveNext]_vars /\ WF_vars(Program)

TypeOK ==
  /\ pc \in PcValues
  /\ i \in 0 .. N
  /\ row \in Idx
  /\ col \in Idx
  /\ pressed \subseteq Cells
  /\ Cardinality(pressed) <= MaxPressed

(* ------------------------------------------------------------------ *)
(* Notions the properties use                                         *)
(* ------------------------------------------------------------------ *)

\* the line pins whose output latch is high
LatchHigh == {r \in Idx : gpio_out[LINE_PINS[r + 1]]}

\* the frequencies the documentation lists, row by row
NoteTable ==
  <<262, 294, 330, 349, 392, 440, 494, 523,
    587, 659, 698, 784, 880, 988, 1047, 1175>>

NoteOf(cell) == NoteTable[CellIndex(cell) + 1]

InitPcs == {"setup", "setup_keyboard"}

WelcomePcs == {"welcome", "welcome_tone"}

PollingPcs == ScanPcs \cup {"sleep"}

\* INIT = 0, WELCOME = 1, POLLING = 2
Phase(p) == IF p \in InitPcs THEN 0 ELSE IF p \in WelcomePcs THEN 1 ELSE 2

(* ------------------------------------------------------------------ *)
(* C1                                                                 *)
(* ------------------------------------------------------------------ *)

\* C1 (as stated): a scan pass plays at most one key-triggered tone, even
\* when several keys are pressed.
C1_OnePerPass == passTones <= 1

\* C1 (amended): a scan pass reports at most one key per sampled cell, not
\* per pass: the tones of a pass never outnumber the cells sampled so far,
\* the last tone belongs to a cell already sampled, and a pass plays at
\* most 16 tones.
C1_OnePerCell ==
  /\ passTones <= lastRead + 1
  /\ passTones <= N * N
  /\ passLast # None => CellIndex(passLast.cell) <= lastRead
  /\ pc = "key_tone" => CellIndex(passLast.cell) = lastRead

\* keys (0,3) and (1,0) are both down in row 0; the second tone of the pass
\* is the one of (1,0)
C1_Witness ==
  /\ pc = "key_tone"
  /\ passTones = 2
  /\ passLast.cell = <<1, 0>>
  /\ lastRead = 4

(* ------------------------------------------------------------------ *)
(* C2                                                                 *)
(* ------------------------------------------------------------------ *)

\* a step taken between a detection and the end of its release-wait
C2_Step ==
  pc \in {"key_tone", "wait"} =>
    /\ gpio_out' = gpio_out
    /\ gpio_out[LINE_PINS[row + 1]]
    /\ row' = row
    /\ passTones' = passTones
    /\ (pc = "key_tone" \/ gpio_get(COLUMN_PINS[col + 1])) =>
          /\ pc' \in {"key_tone", "wait"}
          /\ col' = col
          /\ lastRead' = lastRead
    /\ pc' \in {"key_tone", "wait", "read", "deactivate"}
    /\ pc' = "read" => col' = col + 1

\* C2: from the detection at (row, col) until column col is read low the
\* program stays in playTone or in the release-wait loop of that column:
\* no step changes a line pin (line row stays high), samples another cell,
\* starts a tone, or leaves scan_keyboard; and a test of the loop condition
\* that reads high stays in the loop.
C2_BlocksUntilLow == [][C2_Step]_vars

\* the loop has tested its condition, read high and spins, while a second
\* key is down
C2_Witness ==
  /\ pc = "wait"
  /\ waited
  /\ passTones = 1
  /\ gpio_get(COLUMN_PINS[col + 1])
  /\ Cardinality(pressed) = 2

(* ------------------------------------------------------------------ *)
(* C3                                                                 *)
(* ------------------------------------------------------------------ *)

\* C3: a key that is down has had at most one tone played for it since it
\* went down.
C3_OneTonePerPress == \A k \in pressed : pressTones[k] <= 1

\* a key is held, its tone has been played and the loop spins on it
C3_Witness ==
  /\ pc = "wait"
  /\ waited
  /\ <<row, col>> \in pressed
  /\ pressTones[<<row, col>>] = 1

(* ------------------------------------------------------------------ *)
(* C4                                                                 *)
(* ------------------------------------------------------------------ *)

\* C4: when a pass that began with exactly one key down has returned, no
\* key having gone down during it and that key having stayed down until
\* its cell was sampled, the pass played exactly one tone, the one of that
\* key: 494 Hz for (1,2).
C4_SingleKey ==
  (pc = "sleep" /\ solo # None) =>
    /\ passTones = 1
    /\ passLast = [cell |-> solo, freq |-> NoteOf(solo), ms |-> 200]
    /\ solo = <<1, 2>> => passLast.freq = 494

C4_Witness ==
  /\ pc = "sleep"
  /\ solo = <<1, 2>>
  /\ passTones = 1
  /\ passLast.freq = 494

(* ------------------------------------------------------------------ *)
(* C5                                                                 *)
(* ------------------------------------------------------------------ *)

\* C5: as long as no detection read of the pass has returned high, the
\* pass has played no tone and has not entered the release-wait loop; in
\* particular so when it has returned.
C5_NoKey ==
  passHigh = 0 =>
    /\ passTones = 0
    /\ ~waited
    /\ passLast = None
    /\ pc \notin {"key_tone", "wait"}

\* a whole pass went by without a high read, although a key is down now
C5_Witness ==
  /\ pc = "sleep"
  /\ lastRead = N * N - 1
  /\ passHigh = 0
  /\ pressed # {}

(* ------------------------------------------------------------------ *)
(* C6                                                                 *)
(* ------------------------------------------------------------------ *)

\* C6: the tone played for a detection at (row, col) is the documented
\* note of that cell for 200 ms: 262 Hz for (0,0), 1175 Hz for (3,3).
C6_TableLookup ==
  /\ pc = "key_tone" =>
        /\ buzzer = [freq |-> NoteOf(<<row, col>>), ms |-> 200]
        /\ passLast.cell = <<row, col>>
  /\ passLast # None =>
        /\ passLast.freq = NoteOf(passLast.cell)
        /\ passLast.ms = 200
  /\ (pc = "key_tone" /\ row = 0 /\ col = 0) => buzzer.freq = 262
  /\ (pc = "key_tone" /\ row = 3 /\ col = 3) => buzzer.freq = 1175

C6_Witness ==
  /\ pc = "key_tone"
  /\ row = 3
  /\ col = 3
  /\ buzzer = [freq |-> 1175, ms |-> 200]

(* ------------------------------------------------------------------ *)
(* C7                                                                 *)
(* ------------------------------------------------------------------ *)

\* C7: the welcome tone is started at most once; until it has finished no
\* column pin has been read and no key tone played; the polling loop runs
\* only after it; and it is playTone(262, 200).
C7_WelcomeFirst ==
  /\ welcomes <= 1
  /\ pc \in InitPcs \cup WelcomePcs =>
        /\ ~anyRead
        /\ passTones = 0
        /\ \A k \in Cells : pressTones[k] = 0
  /\ pc \in InitPcs \cup {"welcome"} => welcomes = 0 /\ buzzer = Silent
  /\ pc = "welcome_tone" => buzzer = [freq |-> 262, ms |-> 200]
  /\ pc \in PollingPcs => welcomes = 1

\* a key tone plays, after the one welcome tone
C7_Witness ==
  /\ pc = "key_tone"
  /\ welcomes = 1
  /\ anyRead

(* ------------------------------------------------------------------ *)
(* C8                                                                 *)
(* ------------------------------------------------------------------ *)

C8_Lines ==
  /\ Cardinality(LatchHigh) <= 1
  /\ HighLines = LatchHigh \/ pc \in InitPcs
  /\ pc \in {"read", "wait"} => HighLines = {row}

\* the order of the activations and of the samples
C8_Order ==
  /\ (LatchHigh' # LatchHigh /\ LatchHigh' # {}) =>
        /\ LatchHigh = {}
        /\ LatchHigh' = {row}
        /\ lastRead = N * row - 1
  /\ (lastRead' # lastRead /\ lastRead' # -1) =>
        /\ lastRead' = lastRead + 1
        /\ lastRead' = N * row + col
        /\ HighLines = {row}
  /\ (lastRead' = -1 /\ lastRead # -1) => lastRead = N * N - 1

\* C8: at most one line pin is high at any time; whenever a column pin is
\* about to be read (detection test or release-wait) exactly the line of
\* the current row is high; a line is activated only when none is high and
\* all cells of the rows before it have been sampled; cells are sampled in
\* row-major order, each being the cell (row, col).
C8_OneLineHigh == []C8_Lines /\ [][C8_Order]_vars

\* the release-wait of a key of the last row, with another key down
C8_Witness ==
  /\ pc = "wait"
  /\ waited
  /\ HighLines = {3}
  /\ Cardinality(pressed) = 2

(* ------------------------------------------------------------------ *)
(* C9                                                                 *)
(* ------------------------------------------------------------------ *)

\* C9: all four line pins are low whenever a row is about to be activated
\* and whenever scan_keyboard has returned (during sleep_ms), whether or
\* not a key was found.
C9_LinesLowBetweenRows ==
  pc \in {"activate", "sleep"} => LatchHigh = {} /\ HighLines = {}

\* scan_keyboard has returned from a pass in which a key was found
C9_Witness ==
  /\ pc = "sleep"
  /\ passTones >= 1
  /\ LatchHigh = {}

(* ------------------------------------------------------------------ *)
(* C10                                                                *)
(* ------------------------------------------------------------------ *)

C10_Once ==
  /\ setups <= 1
  /\ pc # "returned"
  /\ pc # "setup" => setups = 1
  /\ Phase(pc) >= 1 => i = N
  /\ Phase(pc) = 2 => welcomes = 1

C10_Step ==
  /\ Phase(pc') \in {Phase(pc), Phase(pc) + 1}
  /\ Phase(pc') # Phase(pc) => pc \in {"setup_keyboard", "welcome_tone"}
  /\ (pc = "sleep" /\ pc' # "sleep") => pc' = "activate" /\ row' = 0
  /\ (pc' = "sleep" /\ pc # "sleep") => pc = "deactivate" /\ row = N - 1
  /\ (pc = "deactivate" /\ row = N - 1 /\ pc' # pc) => pc' = "sleep"
  /\ (lastRead' = -1 /\ lastRead # -1) => pc = "sleep"

\* C10: the program moves INIT -> WELCOME -> POLLING and never back; setup
\* runs once and has configured all four pin pairs before the first pass;
\* main never returns; a pass ends only after its last row, and then in
\* sleep_ms(10), key or no key; a pass starts only after the welcome tone or
\* a sleep, and a sleep is followed by nothing but a new pass.
C10_Lifecycle == []C10_Once /\ [][C10_Step]_vars

\* the sleep after a pass in which a key was found
C10_Witness ==
  /\ pc = "sleep"
  /\ setups = 1
  /\ welcomes = 1
  /\ passTones >= 1
  /\ pressed # {}

(* ------------------------------------------------------------------ *)
(* C11                                                                *)
(* ------------------------------------------------------------------ *)

TonePcs == {"welcome_tone", "key_tone"}

\* the buzzer sounds exactly while main is inside a playTone call
C11_OneCall ==
  /\ buzzer # Silent <=> pc \in TonePcs
  /\ pc = "welcome_tone" => passTones = 0

\* a step taken while a tone sounds: no line pin is written, no cell is
\* sampled, the release-wait is not entered, no other tone is started; the
\* only thing the program does is return from playTone, with the buzzer
\* silent
C11_Step ==
  buzzer # Silent =>
    /\ gpio_out' = gpio_out
    /\ lastRead' = lastRead
    /\ waited' = waited
    /\ anyRead' = anyRead
    /\ passTones' = passTones
    /\ welcomes' = welcomes
    /\ buzzer' \in {buzzer, Silent}
    /\ pc' # pc => buzzer' = Silent /\ pc' \in {"activate", "wait"}

\* C11: tones are serialized. The buzzer sounds only inside a playTone
\* call; while it sounds the program reads no column, writes no line pin
\* and starts no other tone; the call returns with the buzzer silent.
C11_Serialized == []C11_OneCall /\ [][C11_Step]_vars

\* a key tone sounds while a second key is down
C11_Witness ==
  /\ pc = "key_tone"
  /\ buzzer = [freq |-> 440, ms |-> 200]
  /\ Cardinality(pressed) = 2

(* ------------------------------------------------------------------ *)
(* C12                                                                *)
(* ------------------------------------------------------------------ *)

\* position of a cell when even rows are walked left to right and odd rows
\* right to left
SerpentineIndex(cell) ==
  N * cell[1] + (IF cell[1] % 2 = 0 THEN cell[2] ELSE N - 1 - cell[2])

\* the table rises strictly along the serpentine walk
C12_TableSerpentine ==
  \A a, b \in Cells :
     SerpentineIndex(a) < SerpentineIndex(b) =>
        frequency_of(a) < frequency_of(b)

\* the table rises strictly in row-major order
C12_TableRowMajor ==
  \A a, b \in Cells :
     CellIndex(a) < CellIndex(b) => frequency_of(a) < frequency_of(b)

\* C12 (as stated): the table rises strictly along the serpentine walk, so
\* the tone being played is higher than the note of every cell before its
\* cell on that walk.
C12_Serpentine ==
  /\ C12_TableSerpentine
  /\ pc = "key_tone" =>
        \A b \in Cells :
           SerpentineIndex(b) < SerpentineIndex(<<row, col>>) =>
              frequency_of(b) < buzzer.freq

\* C12 (amended): the table rises strictly in row-major order (every row
\* left to right, rows 0 to 3), so the tone being played is higher than the
\* note of every cell scanned before its cell and lower than the note of
\* every cell scanned after it.
C12_RowMajor ==
  /\ C12_TableRowMajor
  /\ pc = "key_tone" =>
        \A b \in Cells :
           /\ CellIndex(b) < CellIndex(<<row, col>>) =>
                 frequency_of(b) < buzzer.freq
           /\ CellIndex(b) > CellIndex(<<row, col>>) =>
                 frequency_of(b) > buzzer.freq

\* the tone of (1,0) sounds: 392 Hz, below the 523, 494 and 440 Hz of the
\* cells that come before it on the serpentine walk
C12_Witness ==
  /\ pc = "key_tone"
  /\ row = 1
  /\ col = 0
  /\ buzzer.freq = 392
  /\ frequency_of(<<1, 3>>) = 523

(* ------------------------------------------------------------------ *)
(* C13                                                                *)
(* ------------------------------------------------------------------ *)

LineGpios == {4, 8, 9, 16}

ColumnGpios == {17, 18, 19, 20}

\* C13: once setup_keyboard has returned, GPIO 4, 8, 9 and 16 are outputs
\* and GPIO 17, 18, 19 and 20 are inputs with their pull-down enabled; the
\* line outputs are low when it returns (until the first pass begins), and
\* no line pin is high at any point during setup.
C13_PinsConfigured ==
  /\ Phase(pc) >= 1 =>
        /\ \A p \in LineGpios : gpio_dir[p] = "out"
        /\ \A p \in ColumnGpios : gpio_dir[p] = "in" /\ gpio_pull[p] = "down"
  /\ pc \in InitPcs \cup WelcomePcs =>
        /\ \A p \in LineGpios : ~gpio_out[p]
        /\ HighLines = {}
  /\ pc = "setup_keyboard" =>
        \A k \in 1 .. i :
           /\ gpio_dir[LINE_PINS[k]] = "out"
           /\ gpio_dir[COLUMN_PINS[k]] = "in"
           /\ gpio_pull[COLUMN_PINS[k]] = "down"

\* setup_keyboard has just returned, with a key held down
C13_Witness ==
  /\ pc = "welcome"
  /\ i = N
  /\ pressed # {}
  /\ \A p \in LineGpios : gpio_dir[p] = "out" /\ ~gpio_out[p]
  /\ \A p \in ColumnGpios : gpio_dir[p] = "in" /\ gpio_pull[p] = "down"

(* ------------------------------------------------------------------ *)
(* C14                                                                *)
(* ------------------------------------------------------------------ *)

\* a step taken after setup_keyboard has returned
C14_Step ==
  Phase(pc) >= 1 =>
    /\ gpio_dir' = gpio_dir
    /\ gpio_pull' = gpio_pull
    /\ \A p \in ColumnGpios : gpio_out'[p] = gpio_out[p]
    /\ gpio_out' # gpio_out =>
          /\ pc \in {"activate", "deactivate"}
          /\ \A p \in Pins \ {LINE_PINS[row + 1]} : gpio_out'[p] = gpio_out[p]

\* C14: after setup_keyboard has returned no step changes the direction or
\* the pull of any pin or writes a column pin; the only pin state that
\* changes is the output level of the current row's line pin, at the
\* activation and the deactivation of the row.  (LINE_PINS, COLUMN_PINS and
\* freq_map are const objects and have no state to change.)
C14_PinsFrame == [][C14_Step]_vars

\* the third row is active in a pass that has already played a tone
C14_Witness ==
  /\ pc = "read"
  /\ row = 2
  /\ LatchHigh = {2}
  /\ passTones >= 1
  /\ \A p \in ColumnGpios : gpio_dir[p] = "in" /\ gpio_pull[p] = "down"

(* ------------------------------------------------------------------ *)
(* C15                                                                *)
(* ------------------------------------------------------------------ *)

\* the tones of a pass number at most 16 and at most the cells up to the
\* last one reported
C15_Count ==
  /\ passTones <= N * N
  /\ passLast # None => passTones <= CellIndex(passLast.cell) + 1
  /\ passLast = None <=> passTones = 0

\* a new tone belongs to a cell after the cell of the previous tone of the
\* pass; the release-wait is left for the next column of the same row, or
\* for the end of the row after the last column
C15_Step ==
  /\ (passTones' = passTones + 1 /\ passLast # None) =>
        CellIndex(passLast.cell) < CellIndex(passLast'.cell)
  /\ (pc = "wait" /\ pc' # "wait") =>
        /\ row' = row
        /\ passTones' = passTones
        /\ gpio_out' = gpio_out
        /\ IF col < N - 1
           THEN pc' = "read" /\ col' = col + 1
           ELSE pc' = "deactivate" /\ col' = col

\* C15: within one pass the detections come in strictly increasing
\* row-major order, so each cell is reported at most once and a pass plays
\* at most 16 tones; after a release-wait the scan resumes at the next
\* column of the same row.
C15_RowMajorOrder == []C15_Count /\ [][C15_Step]_vars

\* the second tone of a pass, for the last key of row 0, after the
\* release-wait of an earlier key of that row
C15_Witness ==
  /\ pc = "key_tone"
  /\ passTones = 2
  /\ passLast.cell = <<0, 3>>
  /\ waited

(* ------------------------------------------------------------------ *)
(* C16                                                                *)
(* ------------------------------------------------------------------ *)

\* every other key whose release the program waits for is eventually
\* released: if the program ends up waiting on a key other than k, that key
\* ends up released
C16_OthersReleased(k) ==
  <>[](pc = "wait" /\ <<row, col>> # k)
     => <>[](pc = "wait" /\ <<row, col>> \notin pressed)

\* the tone of key k is being played
C16_Played(k) ==
  /\ pc = "key_tone"
  /\ <<row, col>> = k
  /\ buzzer.freq = frequency_of(k)

\* C16 (as stated): under weak fairness of the program's steps, and if the
\* other keys the program waits for are eventually released, a key that is
\* down and has had no tone since it went down stays so only until its
\* tone is played, unless it is released first.
C16_Detected ==
  \A k \in Cells :
     C16_OthersReleased(k) =>
        ((k \in pressed /\ pressTones[k] = 0)
            ~> (k \notin pressed \/ C16_Played(k)))

\* the program is inside the tone or the release-wait of key k
C16_Busy(k) == pc \in {"key_tone", "wait"} /\ <<row, col>> = k

\* C16 (amended): the same, for a key that is down while the program is not
\* inside the tone or the release-wait of that very key: a press that
\* begins there, after a release the program did not sample, goes
\* unnoticed for as long as the key is held.
C16_DetectedUnlessBusy ==
  \A k \in Cells :
     C16_OthersReleased(k) =>
        ((k \in pressed /\ pressTones[k] = 0 /\ ~C16_Busy(k))
            ~> (k \notin pressed \/ C16_Played(k)))

\* key (1,2) was held while the program waited for the release of another
\* key, and now its tone plays
C16_Witness ==
  /\ C16_Played(<<1, 2>>)
  /\ <<1, 2>> \in pressed
  /\ passTones = 2
  /\ waited

(* ------------------------------------------------------------------ *)
(* C17                                                                *)
(* ------------------------------------------------------------------ *)

\* a step taken while the program waits for the release of a key that is
\* down leaves it waiting: no tone, no line write, no return; and
\* scan_keyboard returns only after the last of the 16 cells
C17_Step ==
  /\ (pc = "wait" /\ <<row, col>> \in pressed) =>
        /\ pc' = "wait"
        /\ row' = row
        /\ col' = col
        /\ passTones' = passTones
        /\ buzzer' = Silent
        /\ gpio_out' = gpio_out
        /\ gpio_out'[LINE_PINS[row + 1]]
  /\ (pc' = "sleep" /\ pc # "sleep") => lastRead = N * N - 1

\* every release-wait ends: if the program ends up in a release-wait, the
\* key it waits for ends up released
C17_WaitsEnd ==
  <>[](pc = "wait") => <>[](pc = "wait" /\ <<row, col>> \notin pressed)

\* C17: a pass returns exactly when its release-waits end. While the key
\* waited for is down the program stays in the loop, whatever the number of
\* steps: there is no timeout, no further tone, the row's line stays high
\* and sleep_ms is not reached; and if every release-wait ends, every pass
\* that has begun returns, after all 16 cells.
C17_Termination ==
  /\ [][C17_Step]_vars
  /\ C17_WaitsEnd => (InPass ~> pc = "sleep")

\* a pass has returned after two release-waits
C17_Witness ==
  /\ pc = "sleep"
  /\ lastRead = N * N - 1
  /\ passTones = 2
  /\ waited

(* ------------------------------------------------------------------ *)
(* C18                                                                *)
(* ------------------------------------------------------------------ *)

\* a key that has a tone to its name is down, and the program is inside
\* its tone or its release-wait
C18_Attributed ==
  \A k \in Cells :
     pressTones[k] >= 1 =>
        /\ k \in pressed
        /\ pc \in {"key_tone", "wait"}
        /\ <<row, col>> = k

\* the step that starts a key tone is the sample of cell (row, col), taken
\* with line row (and no other) high and with key (row, col) down at that
\* instant; the tone is the one of that cell
C18_Step ==
  passTones' = passTones + 1 =>
    /\ pc = "read"
    /\ HighLines = {row}
    /\ <<row, col>> \in pressed
    /\ pressed' = pressed
    /\ lastRead' = CellIndex(<<row, col>>)
    /\ passLast'.cell = <<row, col>>
    /\ buzzer' = [freq |-> frequency_of(<<row, col>>), ms |-> 200]
    /\ \A k \in Cells \ {<<row, col>>} : pressTones'[k] = pressTones[k]

\* C18: no phantom or late detection. A key tone for (r, c) starts only at
\* a sample of column c with line r active at which key (r, c) is down; a
\* key that is not down at its sample gets no tone, whatever happened to it
\* while the program was blocked.
C18_NoPhantom == []C18_Attributed /\ [][C18_Step]_vars

\* the only tone of a pass is the one of the last cell, whose key is the
\* only one down
C18_Witness ==
  /\ pc = "key_tone"
  /\ <<row, col>> = <<3, 3>>
  /\ pressed = {<<3, 3>>}
  /\ passTones = 1
  /\ passHigh = 1

====
